---- MODULE Spec2Model ----
(***************************************************************************)
(* A model of zego-agent: the Express proxy (server.ts) that signs and     *)
(* forwards requests to the ZEGO REST API and relays LLM completions, and  *)
(* the browser side (ZegoService, the useChat hook).                       *)
(*                                                                         *)
(* JavaScript values are modelled as tagged pairs <<"str", s>> and         *)
(* <<"num", n>>; a JavaScript object is the sequence of its <<key, value>> *)
(* pairs in insertion order.                                               *)
(***************************************************************************)
EXTENDS Integers, Sequences, FiniteSets, TLC

NULL == "null"

(***************************************************************************)
(* Bounds of the model.                                                    *)
(***************************************************************************)
\* longest params object handed to generateZegoSignature
MaxParams == 2
\* calls of makeZegoRequest that are followed
MaxPosts == 2
\* calls of useChat.startSession that are followed
MaxStarts == 2
\* the room messages handled, text sends and conversation calls of one
\* behaviour of the tab, taken together with its startSession calls, each of
\* which counts for two
MaxChatSteps == 6

(***************************************************************************)
(* The state.                                                              *)
(***************************************************************************)
\* the signing routine, called on its own
VARIABLES
    sigCalls,   \* the calls of generateZegoSignature so far: inputs and result
    zegoCalls,  \* the calls of makeZegoRequest so far: action and body
    outbox      \* the POSTs handed to axios.post so far

signVars == <<sigCalls, zegoCalls, outbox>>

\* the server process
VARIABLES
    REGISTERED_AGENT_ID,  \* server.ts 43
    clock,                \* Date.now()
    reqs                  \* the requests: input, handler position, response

serverVars == <<REGISTERED_AGENT_ID, clock, reqs>>

\* the browser tab: ZegoService, the SDK engine behind it, the useChat hook
VARIABLES
    zego,       \* the ZegoService singleton and what it has created
    sdk,        \* the ZegoExpressEngine: rooms logged in, streams published
    hook,       \* the state of useChat
    backend,    \* the agent instances the backend runs for this tab
    memory,     \* memoryService: the conversations in local storage
    chat,       \* the messages stored by memoryService, the sends in flight,
                \* the number of messages and conversation calls so far
    pcStart,    \* the startSession call in flight
    pcEnd,      \* the endSession call in flight
    pcToggle,   \* the toggleVoiceRecording call in flight
    input       \* the VoiceMessageInput component

\* the hook and what it drives
chatVars == <<zego, sdk, hook, backend, memory, chat, pcStart, pcEnd, pcToggle>>

clientVars == <<chatVars, input>>

vars == <<signVars, serverVars, clientVars>>

(***************************************************************************)
(* CONFIG (server.ts 31-41).  The values stand for the environment.        *)
(***************************************************************************)
ZEGO_APP_ID == "1234567890"
ZEGO_SERVER_SECRET == "s3cr3t"
ZEGO_API_BASE_URL == "https://aigc-aiagent-api.zegotech.cn"
PROXY_AUTH == "secure_proxy_token_123"

(***************************************************************************)
(* JavaScript values, objects and strings.                                 *)
(***************************************************************************)
Str(s) == <<"str", s>>
Num(n) == <<"num", n>>

\* String(v), also what a template literal `${v}` yields
String(v) == IF v[1] = "num" THEN ToString(v[2]) ELSE v[2]

\* Object.keys(obj): the keys in insertion order
ObjectKeys(obj) == [i \in 1..Len(obj) |-> obj[i][1]]

HasKey(obj, k) == \E i \in 1..Len(obj) : obj[i][1] = k

\* obj[k]
Get(obj, k) == obj[CHOOSE i \in 1..Len(obj) : obj[i][1] = k][2]

\* obj[k] = v: an existing key keeps its place, a new key goes last
Put(obj, k, v) ==
    IF HasKey(obj, k)
    THEN [i \in 1..Len(obj) |-> IF obj[i][1] = k THEN <<k, v>> ELSE obj[i]]
    ELSE Append(obj, <<k, v>>)

\* { ...a, ...b }
RECURSIVE Spread(_, _)
Spread(a, b) ==
    IF b = <<>> THEN a
    ELSE Spread(Put(a, Head(b)[1], Head(b)[2]), Tail(b))

\* The UTF-16 code units of the key names the model uses.
CodeUnits(k) ==
    CASE k = "Action"           -> <<65, 99, 116, 105, 111, 110>>
      [] k = "AppId"            -> <<65, 112, 112, 73, 100>>
      [] k = "Signature"        -> <<83, 105, 103, 110, 97, 116, 117, 114, 101>>
      [] k = "SignatureNonce"   -> <<83, 105, 103, 110, 97, 116, 117, 114, 101,
                                     78, 111, 110, 99, 101>>
      [] k = "SignatureVersion" -> <<83, 105, 103, 110, 97, 116, 117, 114, 101,
                                     86, 101, 114, 115, 105, 111, 110>>
      [] k = "Timestamp"        -> <<84, 105, 109, 101, 115, 116, 97, 109, 112>>
      [] k = "Zone"             -> <<90, 111, 110, 101>>
      [] k = "action"           -> <<97, 99, 116, 105, 111, 110>>

\* a < b as Array.prototype.sort compares strings: by code units
RECURSIVE SeqLess(_, _)
SeqLess(a, b) ==
    IF b = <<>> THEN FALSE
    ELSE IF a = <<>> THEN TRUE
    ELSE IF Head(a) # Head(b) THEN Head(a) < Head(b)
    ELSE SeqLess(Tail(a), Tail(b))

KeyLess(a, b) == SeqLess(CodeUnits(a), CodeUnits(b))

\* insert k into the sorted sequence s
RECURSIVE Insert(_, _)
Insert(k, s) ==
    IF s = <<>> THEN <<k>>
    ELSE IF KeyLess(k, Head(s)) THEN <<k>> \o s
    ELSE <<Head(s)>> \o Insert(k, Tail(s))

\* keys.sort()
RECURSIVE Sort(_)
Sort(keys) == IF keys = <<>> THEN <<>> ELSE Insert(Head(keys), Sort(Tail(keys)))

\* parts.join('&')
RECURSIVE Join(_)
Join(parts) ==
    IF parts = <<>> THEN ""
    ELSE IF Len(parts) = 1 THEN Head(parts)
    ELSE Head(parts) \o "&" \o Join(Tail(parts))

\* encodeURIComponent on the strings the model uses: the reserved characters
\* of a value are percent-escaped, every other string is left as it is.
Escapes == [x \in {"A&B C"} |-> "A%26B%20C"]

encodeURIComponent(s) == IF s \in DOMAIN Escapes THEN Escapes[s] ELSE s

\* what the receiver of the URL reads back from an escaped value
decodeURIComponent(s) ==
    IF \E x \in DOMAIN Escapes : Escapes[x] = s
    THEN CHOOSE x \in DOMAIN Escapes : Escapes[x] = s
    ELSE s

\* crypto.createHmac('sha256', key).update(msg).digest('hex'): the digest is a
\* function of the key and the message, and of nothing else
Hmac(key, msg) == "hmac-sha256(" \o key \o "," \o msg \o ")"

(***************************************************************************)
(* generateZegoSignature (server.ts 45-59).  Date.now() and                *)
(* crypto.randomBytes are read inside the routine: `now` and `nonce` are   *)
(* what they returned.                                                     *)
(***************************************************************************)
\* mutant: the timestamp in milliseconds
signatureParams_millis(params, nonce, now) ==
    Spread(params, << <<"AppId", Str(ZEGO_APP_ID)>>,
                      <<"SignatureNonce", Str(nonce)>>,
                      <<"Timestamp", Num(now)>>,
                      <<"SignatureVersion", Str("2.0")>> >>)

signatureParams(params, nonce, now) ==
    Spread(params, << <<"AppId", Str(ZEGO_APP_ID)>>,
                      <<"SignatureNonce", Str(nonce)>>,
                      <<"Timestamp", Num(now \div 1000)>>,
                      <<"SignatureVersion", Str("2.0")>> >>)

\* mutant: the keys in insertion order, the sort forgotten
sortedKeys_unsorted(obj) == ObjectKeys(obj)

sortedKeys(obj) == Sort(ObjectKeys(obj))

queryString(obj) ==
    LET keys == sortedKeys(obj)
    IN  Join([i \in 1..Len(keys) |-> keys[i] \o "=" \o String(Get(obj, keys[i]))])

generateZegoSignature(params, nonce, now) ==
    LET base == signatureParams(params, nonce, now)
        signature == Hmac(ZEGO_SERVER_SECRET, queryString(base))
    IN  Put(base, "Signature", Str(signature))

(***************************************************************************)
(* makeZegoRequest (server.ts 61-71): the POST that axios.post is handed.  *)
(* The query carries Object.keys(queryParams) in insertion order, each     *)
(* value percent-escaped.                                                  *)
(***************************************************************************)
\* mutant: the body left out of the POST
makeZegoRequest_noBody(action, bodyParams, nonce, now) ==
    LET queryParams == generateZegoSignature(<< <<"Action", Str(action)>> >>, nonce, now)
    IN  [method |-> "POST",
         base   |-> ZEGO_API_BASE_URL,
         query  |-> [i \in 1..Len(queryParams) |->
                        <<queryParams[i][1],
                          encodeURIComponent(String(queryParams[i][2]))>>],
         body   |-> <<>>]

makeZegoRequest(action, bodyParams, nonce, now) ==
    LET queryParams == generateZegoSignature(<< <<"Action", Str(action)>> >>, nonce, now)
    IN  [method |-> "POST",
         base   |-> ZEGO_API_BASE_URL,
         query  |-> [i \in 1..Len(queryParams) |->
                        <<queryParams[i][1],
                          encodeURIComponent(String(queryParams[i][2]))>>],
         body   |-> bodyParams]

(***************************************************************************)
(* Inputs of the signing routine.                                          *)
(***************************************************************************)
\* what crypto.randomBytes(16).toString('hex') may return
Nonces == {"0a1b", "ffee"}

\* what Date.now() may return (milliseconds)
NowSamples == {1999, 2000, 2999, 61000}

ParamKeys == {"Action", "AppId", "Zone", "action"}

ParamValue(k) ==
    CASE k = "Action" -> Str("CreateAgentInstance")
      [] k = "AppId"  -> Str("another-app")
      [] k = "Zone"   -> Num(7)
      [] k = "action" -> Str("lower")

\* the params objects: up to MaxParams distinct keys, in any insertion order
ParamsOfLen(n) ==
    {[i \in 1..n |-> <<f[i], ParamValue(f[i])>>] :
        f \in {g \in [1..n -> ParamKeys] : \A i, j \in 1..n : i # j => g[i] # g[j]}}

ParamObjects == UNION {ParamsOfLen(n) : n \in 0..MaxParams}

InitSign ==
    /\ sigCalls = <<>>
    /\ zegoCalls = <<>>
    /\ outbox = <<>>

\* One call of generateZegoSignature(params).  The clock does not run backwards
\* between calls.  Two calls are followed, which is what comparing calls needs.
CallGenerateZegoSignature ==
    /\ Len(sigCalls) < 2
    /\ \E params \in ParamObjects, nonce \in Nonces, now \in NowSamples :
          /\ \A i \in 1..Len(sigCalls) : sigCalls[i].now <= now
          /\ sigCalls' = Append(sigCalls,
                 [params |-> params, nonce |-> nonce, now |-> now,
                  out    |-> generateZegoSignature(params, nonce, now)])
    /\ UNCHANGED <<zegoCalls, outbox>>
    /\ UNCHANGED <<serverVars, clientVars>>

NextSignature == CallGenerateZegoSignature

\* the actions the server passes, and one with reserved characters
ZegoActions == {"RegisterAgent", "CreateAgentInstance", "SendAgentInstanceLLM",
                "DeleteAgentInstance", "A&B C"}

ZegoBodies == {<<>>, << <<"AgentInstanceId", Str("inst-1")>> >>}

\* One call of makeZegoRequest(action, body), up to the POST it issues.
CallMakeZegoRequest ==
    /\ Len(zegoCalls) < MaxPosts
    /\ \E action \in ZegoActions, body \in ZegoBodies,
          nonce \in Nonces, now \in NowSamples :
          /\ zegoCalls' = Append(zegoCalls, [action |-> action, body |-> body])
          /\ outbox' = Append(outbox, makeZegoRequest(action, body, nonce, now))
    /\ UNCHANGED sigCalls
    /\ UNCHANGED <<serverVars, clientVars>>

NextZegoRequest == CallMakeZegoRequest

(***************************************************************************)
(* Claims about the signing routine.                                       *)
(***************************************************************************)
ReservedKeys == {"AppId", "SignatureNonce", "Timestamp", "SignatureVersion"}

KeySet(obj) == {obj[i][1] : i \in 1..Len(obj)}

\* the keys of S in ascending order, each once
Ascending(S) ==
    [i \in 1..Cardinality(S) |->
        CHOOSE k \in S : Cardinality({j \in S : KeyLess(j, k)}) = i - 1]

\* the string `k=v` of each key of S in ascending order, joined by '&'
Canonical(S, val(_)) ==
    LET ks == Ascending(S)
    IN  Join([i \in 1..Len(ks) |-> ks[i] \o "=" \o val(ks[i])])

\* the value the claim gives key k in a call c
SignedValue(c, k) ==
    CASE k = "AppId"            -> ZEGO_APP_ID
      [] k = "SignatureNonce"   -> c.nonce
      [] k = "Timestamp"        -> ToString(c.now \div 1000)
      [] k = "SignatureVersion" -> "2.0"
      [] OTHER                  -> String(Get(c.params, k))

C1_Call(c) ==
    LET S == KeySet(c.params) \cup ReservedKeys
        val(k) == SignedValue(c, k)
    IN  /\ "Signature" \notin S
        /\ Len(c.out) = Cardinality(S) + 1
        /\ KeySet(c.out) = S \cup {"Signature"}
        /\ \A k \in S : String(Get(c.out, k)) = val(k)
        /\ Get(c.out, "Signature") = Str(Hmac(ZEGO_SERVER_SECRET, Canonical(S, val)))

\* C1: for every call of generateZegoSignature the signed string is the
\* `key=value` pairs of the keys of params and of AppId, SignatureNonce,
\* Timestamp and SignatureVersion, each key once, in ascending key order,
\* joined by '&', with no Signature key; the result holds those keys with
\* the same values plus Signature = HMAC-SHA256(secret, that string).
C1_SignedStringIsCanonical ==
    \A i \in 1..Len(sigCalls) : C1_Call(sigCalls[i])

\* a call whose params bring two keys that sort around the reserved ones
C1_Witness ==
    \E i \in 1..Len(sigCalls) :
        /\ KeySet(sigCalls[i].params) = {"Zone", "Action"}
        /\ sigCalls[i].params[1][1] = "Zone"

\* C2 as stated: two calls with the same params return the same Signature.
C2_SameParamsSameSignature ==
    \A i, j \in 1..Len(sigCalls) :
        sigCalls[i].params = sigCalls[j].params
            => Get(sigCalls[i].out, "Signature") = Get(sigCalls[j].out, "Signature")

\* C2 amended: two calls with the same params that also drew the same
\* SignatureNonce and the same Timestamp (in seconds) return the same
\* Signature, and fixed inputs give one known vector.
C2_SameInputsSameSignature ==
    /\ \A i, j \in 1..Len(sigCalls) :
          (/\ sigCalls[i].params = sigCalls[j].params
           /\ sigCalls[i].nonce = sigCalls[j].nonce
           /\ sigCalls[i].now \div 1000 = sigCalls[j].now \div 1000)
            => Get(sigCalls[i].out, "Signature") = Get(sigCalls[j].out, "Signature")
    /\ \A i \in 1..Len(sigCalls) :
          (/\ sigCalls[i].params = << <<"Action", Str("CreateAgentInstance")>> >>
           /\ sigCalls[i].nonce = "0a1b"
           /\ sigCalls[i].now \div 1000 = 2)
            => Get(sigCalls[i].out, "Signature") =
                 Str(Hmac(ZEGO_SERVER_SECRET,
                      "Action=CreateAgentInstance&AppId=1234567890&SignatureNonce=0a1b"
                      \o "&SignatureVersion=2.0&Timestamp=2"))

\* two calls at different milliseconds of one second, same params and nonce
C2_Witness ==
    /\ Len(sigCalls) = 2
    /\ sigCalls[1].params = << <<"Action", Str("CreateAgentInstance")>> >>
    /\ sigCalls[1].params = sigCalls[2].params
    /\ sigCalls[1].nonce = sigCalls[2].nonce
    /\ sigCalls[1].now = 2000
    /\ sigCalls[2].now = 2999

RequestKeys == {"Action", "AppId", "SignatureNonce", "Timestamp",
                "SignatureVersion", "Signature"}

\* what the receiver reads for key k of the query of POST p
Sent(p, k) == decodeURIComponent(Get(p.query, k))

C3_Post(call, p) ==
    LET val(k) == Sent(p, k)
    IN  /\ p.method = "POST"
        /\ p.base = ZEGO_API_BASE_URL
        /\ p.body = call.body
        /\ Len(p.query) = Cardinality(RequestKeys)
        /\ KeySet(p.query) = RequestKeys
        /\ Sent(p, "Action") = call.action
        /\ Sent(p, "AppId") = ZEGO_APP_ID
        /\ Sent(p, "SignatureVersion") = "2.0"
        /\ Sent(p, "Signature") =
              Hmac(ZEGO_SERVER_SECRET, Canonical(RequestKeys \ {"Signature"}, val))

\* C3: every call makeZegoRequest(action, body) sends exactly one POST to the
\* vendor base URL; its query carries Action, AppId, SignatureNonce,
\* Timestamp, SignatureVersion and Signature once each, the Signature is the
\* one computed over the values sent, and the body is the caller's body.
C3_OnePostSignedAsSent ==
    /\ Len(outbox) = Len(zegoCalls)
    /\ \A i \in 1..Len(outbox) : C3_Post(zegoCalls[i], outbox[i])

\* two calls, one with a body and an action that needs escaping
C3_Witness ==
    /\ Len(zegoCalls) = 2
    /\ zegoCalls[1].action = "A&B C"
    /\ zegoCalls[1].body # <<>>
    /\ Get(outbox[1].query, "Action") = "A%26B%20C"
    /\ zegoCalls[2].action = "RegisterAgent"


(***************************************************************************)
(* The Express server (server.ts 74-259).                                  *)
(*                                                                         *)
(* A handler runs from the arrival of its request to its first await in    *)
(* one step, and from the settling of an await to the next one in one      *)
(* step: JavaScript runs each such stretch to completion.  Requests are    *)
(* served concurrently: the awaits of different requests interleave.       *)
(***************************************************************************)
Requests == {"r1", "r2"}

\* latest value of Date.now() the server sees
MaxClock == 1
\* longest upstream completion, in chunks
MaxChunks == 2

\* a request body or query: the fields a client may send
FieldValues == {Str(""), Str("x1")}

BodiesOver(k1, k2) ==
    {<<>>} \cup {<< <<k1, v>> >> : v \in FieldValues}
           \cup {<< <<k2, v>> >> : v \in FieldValues}
           \cup {<< <<k1, v>>, <<k2, w>> >> : v \in FieldValues, w \in FieldValues}

BodiesOf(k) == {<<>>} \cup {<< <<k, v>> >> : v \in FieldValues}

\* !obj.k : the field is missing or the empty string
Falsy(obj, k) == ~HasKey(obj, k) \/ Get(obj, k) = Str("")

\* what a vendor call may come to: response.data, or axios throwing
VendorOutcomes ==
    { [kind |-> "data",  Code |-> 0,      Message |-> "success"],
      [kind |-> "data",  Code |-> 410001, Message |-> "vendor refused"],
      [kind |-> "data",  Code |-> 410001, Message |-> ""],
      [kind |-> "throw", Code |-> -1,     Message |-> "timeout of 30000ms exceeded"] }

\* a || b on strings
OrElse(a, b) == IF a = "" THEN b ELSE a

NoRequest ==
    [ep |-> "none", in |-> <<>>, auth |-> "", pc |-> "idle", agentId |-> NULL,
     status |-> 0, sent |-> 0, ended |-> FALSE, body |-> <<>>,
     calls |-> <<>>, replies |-> <<>>,
     upstreamBody |-> <<>>, upstream |-> "none", pending |-> <<>>,
     received |-> <<>>, written |-> <<>>, clientClosed |-> FALSE]

InitServer ==
    /\ REGISTERED_AGENT_ID = NULL
    /\ clock = 0
    /\ reqs = [r \in Requests |-> NoRequest]

\* res.status(code).json(body): the status line, the headers and the body go
\* out and the response is finished
Json(q, code, body) ==
    [q EXCEPT !.status = code, !.sent = @ + 1, !.ended = TRUE, !.body = body,
              !.pc = "done"]

Bool(b) == <<"bool", b>>

\* await makeZegoRequest(action, body): the POST goes out and the handler
\* waits at `at`.  Of the POST the request keeps the Action and the body.
Post(q, action, body, at, nonce, now) ==
    LET p == makeZegoRequest(action, body, nonce, now)
    IN  [q EXCEPT !.calls = Append(@, [Action |-> decodeURIComponent(Get(p.query, "Action")),
                                       body   |-> p.body]),
                  !.pc = at]

\* the catch clause of a handler: error?.message || fallback
Caught(q, message, fallback) ==
    Json(q, 500, << <<"error", Str(OrElse(message, fallback))>> >>)

(***************************************************************************)
(* registerAgent (server.ts 108-145) and POST /api/start (148-175)         *)
(***************************************************************************)
AgentIdAt(now) == "agent_" \o ToString(now)

\* the body of the RegisterAgent request
agentConfig(agentId) == << <<"AgentId", Str(agentId)>>, <<"Name", Str("AI Assistant")>> >>

\* the body of the CreateAgentInstance request
instanceConfig(agentId, in) ==
    << <<"AgentId", Str(agentId)>>,
       <<"UserId", Get(in, "user_id")>>,
       <<"RoomId", Get(in, "room_id")>> >>

\* mutant: the request is rejected only when both fields are missing
startInvalid_both(in) == Falsy(in, "room_id") /\ Falsy(in, "user_id")

startInvalid(in) == Falsy(in, "room_id") \/ Falsy(in, "user_id")

\* /api/start up to its first await
startArrive(q, registered, nonce, now) ==
    IF startInvalid(q.in)
    THEN Json(q, 400, << <<"error", Str("room_id and user_id are required")>> >>)
    ELSE IF registered # NULL
    THEN Post([q EXCEPT !.agentId = registered], "CreateAgentInstance",
              instanceConfig(registered, q.in), "awaitCreate", nonce, now)
    ELSE Post([q EXCEPT !.agentId = AgentIdAt(now)], "RegisterAgent",
              agentConfig(AgentIdAt(now)), "awaitRegister", nonce, now)

\* mutant: the id is kept whatever the vendor answered
registerAgentSettled_always(registered, agentId, o) == agentId

\* registerAgent after its await: REGISTERED_AGENT_ID once the request settled
registerAgentSettled(registered, agentId, o) ==
    IF o.kind = "data" /\ o.Code = 0 THEN agentId ELSE registered

\* mutant: a refusal of RegisterAgent is not looked at
startRegistered_unchecked(q, o, nonce, now) ==
    LET q1 == [q EXCEPT !.replies = Append(@, o)]
    IN  IF o.kind = "throw"
        THEN Caught(q1, o.Message, "CreateAgentInstance error")
        ELSE Post(q1, "CreateAgentInstance", instanceConfig(q.agentId, q.in),
                  "awaitCreate", nonce, now)

\* /api/start when the RegisterAgent request settles with outcome o
startRegistered(q, o, nonce, now) ==
    LET q1 == [q EXCEPT !.replies = Append(@, o)]
    IN  IF o.kind = "throw"
        THEN Caught(q1, o.Message, "CreateAgentInstance error")
        ELSE IF o.Code # 0
        THEN Caught(q1, OrElse(o.Message, "RegisterAgent failed"),
                    "CreateAgentInstance error")
        ELSE Post(q1, "CreateAgentInstance", instanceConfig(q.agentId, q.in),
                  "awaitCreate", nonce, now)

\* /api/start when the CreateAgentInstance request settles with outcome o
startCreated(q, o) ==
    LET q1 == [q EXCEPT !.replies = Append(@, o)]
    IN  IF o.kind = "throw"
        THEN Caught(q1, o.Message, "CreateAgentInstance error")
        ELSE IF o.Code = 0
        THEN Json(q1, 200, << <<"success", Bool(TRUE)>>,
                              <<"agentId", Str(q.agentId)>> >>)
        ELSE Json(q1, 400, << <<"error",
                   Str(OrElse(o.Message, "Failed to create agent instance"))>> >>)

StartArrive(r) ==
    /\ reqs[r].pc = "idle"
    /\ \E in \in BodiesOver("room_id", "user_id"), nonce \in Nonces,
          now \in clock..MaxClock :
          /\ clock' = now
          /\ reqs' = [reqs EXCEPT ![r] =
                startArrive([reqs[r] EXCEPT !.ep = "/api/start", !.in = in],
                            REGISTERED_AGENT_ID, nonce, now)]
    /\ UNCHANGED REGISTERED_AGENT_ID
    /\ UNCHANGED <<signVars, clientVars>>

StartRegistered(r) ==
    /\ reqs[r].ep = "/api/start"
    /\ reqs[r].pc = "awaitRegister"
    /\ \E o \in VendorOutcomes, nonce \in Nonces :
          /\ reqs' = [reqs EXCEPT ![r] = startRegistered(reqs[r], o, nonce, clock)]
          /\ REGISTERED_AGENT_ID' =
                registerAgentSettled(REGISTERED_AGENT_ID, reqs[r].agentId, o)
    /\ UNCHANGED clock
    /\ UNCHANGED <<signVars, clientVars>>

StartCreated(r) ==
    /\ reqs[r].ep = "/api/start"
    /\ reqs[r].pc = "awaitCreate"
    /\ \E o \in VendorOutcomes :
          reqs' = [reqs EXCEPT ![r] = startCreated(reqs[r], o)]
    /\ UNCHANGED <<REGISTERED_AGENT_ID, clock>>
    /\ UNCHANGED <<signVars, clientVars>>

(***************************************************************************)
(* POST /api/send-message (177-194) and POST /api/stop (196-212)           *)
(***************************************************************************)
sendInvalid(in) == Falsy(in, "agent_instance_id") \/ Falsy(in, "message")

sendArrive(q, nonce, now) ==
    IF sendInvalid(q.in)
    THEN Json(q, 400, << <<"error", Str("agent_instance_id and message are required")>> >>)
    ELSE Post(q, "SendAgentInstanceLLM",
              << <<"AgentInstanceId", Get(q.in, "agent_instance_id")>>,
                 <<"Text", Get(q.in, "message")>> >>, "awaitSend", nonce, now)

\* mutant: the return after the success response is missing
sendSettled_noReturn(q, o) ==
    LET q1 == [q EXCEPT !.replies = Append(@, o)]
    IN  IF o.kind = "throw"
        THEN Caught(q1, o.Message, "SendAgentInstanceLLM error")
        ELSE IF o.Code = 0
        THEN Json(Json(q1, 200, << <<"success", Bool(TRUE)>> >>), 400,
                  << <<"error", Str(OrElse(o.Message, "Failed to send message"))>> >>)
        ELSE Json(q1, 400, << <<"error",
                   Str(OrElse(o.Message, "Failed to send message"))>> >>)

sendSettled(q, o) ==
    LET q1 == [q EXCEPT !.replies = Append(@, o)]
    IN  IF o.kind = "throw"
        THEN Caught(q1, o.Message, "SendAgentInstanceLLM error")
        ELSE IF o.Code = 0
        THEN Json(q1, 200, << <<"success", Bool(TRUE)>> >>)
        ELSE Json(q1, 400, << <<"error",
                   Str(OrElse(o.Message, "Failed to send message"))>> >>)

stopInvalid(in) == Falsy(in, "agent_instance_id")

stopArrive(q, nonce, now) ==
    IF stopInvalid(q.in)
    THEN Json(q, 400, << <<"error", Str("agent_instance_id is required")>> >>)
    ELSE Post(q, "DeleteAgentInstance",
              << <<"AgentInstanceId", Get(q.in, "agent_instance_id")>> >>,
              "awaitStop", nonce, now)

stopSettled(q, o) ==
    LET q1 == [q EXCEPT !.replies = Append(@, o)]
    IN  IF o.kind = "throw"
        THEN Caught(q1, o.Message, "DeleteAgentInstance error")
        ELSE IF o.Code = 0
        THEN Json(q1, 200, << <<"success", Bool(TRUE)>> >>)
        ELSE Json(q1, 400, << <<"error",
                   Str(OrElse(o.Message, "Failed to stop agent instance"))>> >>)

SendArrive(r) ==
    /\ reqs[r].pc = "idle"
    /\ \E in \in BodiesOver("agent_instance_id", "message"), nonce \in Nonces :
          reqs' = [reqs EXCEPT ![r] =
             sendArrive([reqs[r] EXCEPT !.ep = "/api/send-message", !.in = in],
                        nonce, clock)]
    /\ UNCHANGED <<REGISTERED_AGENT_ID, clock>>
    /\ UNCHANGED <<signVars, clientVars>>

SendSettled(r) ==
    /\ reqs[r].pc = "awaitSend"
    /\ \E o \in VendorOutcomes : reqs' = [reqs EXCEPT ![r] = sendSettled(reqs[r], o)]
    /\ UNCHANGED <<REGISTERED_AGENT_ID, clock>>
    /\ UNCHANGED <<signVars, clientVars>>

StopArrive(r) ==
    /\ reqs[r].pc = "idle"
    /\ \E in \in BodiesOf("agent_instance_id"), nonce \in Nonces :
          reqs' = [reqs EXCEPT ![r] =
             stopArrive([reqs[r] EXCEPT !.ep = "/api/stop", !.in = in], nonce, clock)]
    /\ UNCHANGED <<REGISTERED_AGENT_ID, clock>>
    /\ UNCHANGED <<signVars, clientVars>>

StopSettled(r) ==
    /\ reqs[r].pc = "awaitStop"
    /\ \E o \in VendorOutcomes : reqs' = [reqs EXCEPT ![r] = stopSettled(reqs[r], o)]
    /\ UNCHANGED <<REGISTERED_AGENT_ID, clock>>
    /\ UNCHANGED <<signVars, clientVars>>

(***************************************************************************)
(* POST /api/callbacks (214-217), GET /api/token (219-241), GET /health    *)
(* (243-254)                                                               *)
(***************************************************************************)
callbacksHandle(q) == Json(q, 200, << <<"success", Bool(TRUE)>> >>)

\* String(req.query.user_id || '')
tokenUserId(in) == IF Falsy(in, "user_id") THEN "" ELSE String(Get(in, "user_id"))

\* generateToken04 returns a token or throws
tokenHandle(q, throws) ==
    IF tokenUserId(q.in) = ""
    THEN Json(q, 400, << <<"error", Str("user_id is required")>> >>)
    ELSE IF throws
    THEN Json(q, 500, << <<"error", Str("Failed to generate token")>> >>)
    ELSE Json(q, 200, << <<"token", Str("token04:" \o tokenUserId(q.in))>> >>)

healthHandle(q, registered) ==
    Json(q, 200, << <<"status", Str("healthy")>>,
                    <<"registeredAgent", Bool(registered # NULL)>> >>)

CallbacksHandle(r) ==
    /\ reqs[r].pc = "idle"
    /\ reqs' = [reqs EXCEPT ![r] = callbacksHandle([reqs[r] EXCEPT !.ep = "/api/callbacks"])]
    /\ UNCHANGED <<REGISTERED_AGENT_ID, clock>>
    /\ UNCHANGED <<signVars, clientVars>>

TokenHandle(r) ==
    /\ reqs[r].pc = "idle"
    /\ \E in \in BodiesOf("user_id"), throws \in BOOLEAN :
          reqs' = [reqs EXCEPT ![r] =
             tokenHandle([reqs[r] EXCEPT !.ep = "/api/token", !.in = in], throws)]
    /\ UNCHANGED <<REGISTERED_AGENT_ID, clock>>
    /\ UNCHANGED <<signVars, clientVars>>

HealthHandle(r) ==
    /\ reqs[r].pc = "idle"
    /\ reqs' = [reqs EXCEPT ![r] =
          healthHandle([reqs[r] EXCEPT !.ep = "/health"], REGISTERED_AGENT_ID)]
    /\ UNCHANGED <<REGISTERED_AGENT_ID, clock>>
    /\ UNCHANGED <<signVars, clientVars>>

(***************************************************************************)
(* POST /proxy/llm (74-106).  The upstream completion is a stream: it      *)
(* emits chunks, then ends or fails; pipe writes each chunk to the client  *)
(* as it is received.                                                      *)
(***************************************************************************)
\* req.headers.authorization; "" stands for a request without the header
AuthHeaders ==
    {"", "Bearer " \o PROXY_AUTH, "Bearer wrong", PROXY_AUTH, "bearer " \o PROXY_AUTH}

ProxyBodies ==
    { <<>>,
      << <<"model", Str("gpt-4o-mini")>> >>,
      << <<"stream", Bool(FALSE)>>, <<"model", Str("gpt-4o-mini")>> >>,
      << <<"model", Str("gpt-4o-mini")>>, <<"stream", Bool(TRUE)>> >> }

\* mutant: the caller's stream flag wins, { stream: true, ...req.body }
upstreamRequestBody_callerWins(body) == Spread(<< <<"stream", Bool(TRUE)>> >>, body)

\* { ...req.body, stream: true }
upstreamRequestBody(body) == Spread(body, << <<"stream", Bool(TRUE)>> >>)

\* mutant: any header that ends with the token passes
proxyAuthorized_token(auth) ==
    auth \in {"Bearer " \o PROXY_AUTH, "bearer " \o PROXY_AUTH, PROXY_AUTH}

proxyAuthorized(auth) == auth = "Bearer " \o PROXY_AUTH

\* the handler up to `await axios.post`
proxyArrive(q) ==
    IF ~proxyAuthorized(q.auth)
    THEN Json(q, 401, << <<"error", Str("Unauthorized")>> >>)
    ELSE [q EXCEPT !.upstreamBody = upstreamRequestBody(q.in),
                   !.pc = "awaitUpstream"]

\* axios.post resolved: res.writeHead(200, ...), pipe, the three listeners
proxyStreaming(q) ==
    [q EXCEPT !.status = 200, !.sent = @ + 1, !.upstream = "open",
              !.pc = "streaming"]

\* axios.post rejected: the catch clause
proxyFailed(q, message) ==
    Json(q, 500, << <<"error", Str(OrElse(message, "LLM request failed"))>> >>)

\* mutant: a pipe that drops every chunk after the first
pipeWrite_dropping(q, chunk) ==
    IF q.clientClosed \/ Len(q.written) >= 1 THEN q.written
    ELSE Append(q.written, chunk)

\* upstream.data.pipe(res) on a chunk: written to the client, unless the
\* client's connection is gone
pipeWrite(q, chunk) ==
    IF q.clientClosed THEN q.written ELSE Append(q.written, chunk)

\* upstream 'data'
proxyData(q, chunk) ==
    [q EXCEPT !.received = Append(@, chunk), !.written = pipeWrite(q, chunk)]

\* upstream 'end' or 'error': res.end().  Ending an ended response does nothing.
proxyFinished(q, how) ==
    [q EXCEPT !.upstream = how, !.ended = TRUE, !.pc = "done"]

\* req 'close' while the listener of line 101 is registered: upstream.data.destroy();
\* a destroyed stream emits neither 'end' nor 'error'
proxyClosed(q) ==
    IF q.pc = "streaming"
    THEN [q EXCEPT !.clientClosed = TRUE, !.upstream = "destroyed", !.pc = "done"]
    ELSE [q EXCEPT !.clientClosed = TRUE]

ProxyArrive(r) ==
    /\ reqs[r].pc = "idle"
    /\ \E auth \in AuthHeaders, in \in ProxyBodies :
          reqs' = [reqs EXCEPT ![r] =
             proxyArrive([reqs[r] EXCEPT !.ep = "/proxy/llm", !.auth = auth, !.in = in])]
    /\ UNCHANGED <<REGISTERED_AGENT_ID, clock>>
    /\ UNCHANGED <<signVars, clientVars>>

UpstreamRespond(r) ==
    /\ reqs[r].pc = "awaitUpstream"
    /\ reqs' = [reqs EXCEPT ![r] = proxyStreaming(reqs[r])]
    /\ UNCHANGED <<REGISTERED_AGENT_ID, clock>>
    /\ UNCHANGED <<signVars, clientVars>>

UpstreamFail(r) ==
    /\ reqs[r].pc = "awaitUpstream"
    /\ \E message \in {"", "Request failed with status code 429"} :
          reqs' = [reqs EXCEPT ![r] = proxyFailed(reqs[r], message)]
    /\ UNCHANGED <<REGISTERED_AGENT_ID, clock>>
    /\ UNCHANGED <<signVars, clientVars>>

UpstreamData(r) ==
    /\ reqs[r].pc = "streaming"
    /\ Len(reqs[r].received) < MaxChunks
    /\ reqs' = [reqs EXCEPT ![r] = proxyData(reqs[r], Len(reqs[r].received) + 1)]
    /\ UNCHANGED <<REGISTERED_AGENT_ID, clock>>
    /\ UNCHANGED <<signVars, clientVars>>

UpstreamEnd(r) ==
    /\ reqs[r].pc = "streaming"
    /\ reqs' = [reqs EXCEPT ![r] = proxyFinished(reqs[r], "ended")]
    /\ UNCHANGED <<REGISTERED_AGENT_ID, clock>>
    /\ UNCHANGED <<signVars, clientVars>>

UpstreamError(r) ==
    /\ reqs[r].pc = "streaming"
    /\ reqs' = [reqs EXCEPT ![r] = proxyFinished(reqs[r], "errored")]
    /\ UNCHANGED <<REGISTERED_AGENT_ID, clock>>
    /\ UNCHANGED <<signVars, clientVars>>

ClientClose(r) ==
    /\ reqs[r].ep = "/proxy/llm"
    /\ reqs[r].pc \in {"awaitUpstream", "streaming"}
    /\ ~reqs[r].clientClosed
    /\ reqs' = [reqs EXCEPT ![r] = proxyClosed(reqs[r])]
    /\ UNCHANGED <<REGISTERED_AGENT_ID, clock>>
    /\ UNCHANGED <<signVars, clientVars>>

NextServer ==
    \E r \in Requests :
        \/ StartArrive(r)
        \/ StartRegistered(r)
        \/ StartCreated(r)
        \/ SendArrive(r)
        \/ SendSettled(r)
        \/ StopArrive(r)
        \/ StopSettled(r)
        \/ CallbacksHandle(r)
        \/ TokenHandle(r)
        \/ HealthHandle(r)
        \/ ProxyArrive(r)
        \/ UpstreamRespond(r)
        \/ UpstreamFail(r)
        \/ UpstreamData(r)
        \/ UpstreamEnd(r)
        \/ UpstreamError(r)
        \/ ClientClose(r)

(***************************************************************************)
(* The browser tab.                                                        *)
(*                                                                         *)
(* ZegoService (zego.ts 5-146) wraps one ZegoExpressEngine.  useChat       *)
(* (part_001 469-748) drives it.  An async function runs from its call to  *)
(* its first pending await in one step and from the settling of an await   *)
(* to the next in one step.  A request to the SDK or to the backend may    *)
(* succeed or fail.                                                        *)
(***************************************************************************)
SdkEvents == {"recvExperimentalAPI", "roomStreamUpdate", "roomUserUpdate"}

NoSession ==
    [roomId |-> NULL, userId |-> NULL, agentInstanceId |-> NULL,
     isActive |-> FALSE, conversationId |-> NULL]

IdleStart == [at |-> "idle", roomId |-> NULL, userId |-> NULL, existing |-> NULL]

IdleEnd == [at |-> "idle", session |-> NoSession]

\* what is kept about the latest room message handed to the hook's callback:
\* its id, whether it closed a message, whether that id had been handled
\* before, whether the list shows it afterwards, the conversation it was
\* stored under, the hook's conversation and session at that moment, whether
\* it was the last chunk of a reply, and which operation of the tab it was
NoDelivery ==
    [id |-> NULL, final |-> FALSE, fresh |-> FALSE, listed |-> FALSE,
     conv |-> NULL, exposed |-> NULL, active |-> FALSE, ended |-> FALSE, n |-> 0]

InitClient ==
    /\ zego = [instances |-> 0, engines |-> 0, zg |-> NULL, isInitialized |-> FALSE,
               currentRoomId |-> NULL, currentUserId |-> NULL,
               messageCallback |-> NULL,
               listeners |-> [e \in SdkEvents |-> 0]]
    /\ sdk = [rooms |-> {}, publishing |-> {}, loginOverlap |-> FALSE]
    /\ hook = [messages |-> <<>>, session |-> NoSession, isLoading |-> FALSE,
               isConnected |-> FALSE, isRecording |-> FALSE,
               currentTranscript |-> "", conversation |-> NULL,
               agentStatus |-> "idle", processedMessageIds |-> {},
               starts |-> 0, lastStart |-> "none", mounted |-> TRUE]
    /\ backend = [created |-> 0, running |-> {}, stopRequested |-> {}]
    /\ memory = {}
    /\ chat = [stored |-> <<>>, ops |-> 0, inflight |-> 0, last |-> NoDelivery]
    /\ pcStart = IdleStart
    /\ pcEnd = IdleEnd
    /\ pcToggle = "idle"

(***************************************************************************)
(* ZegoService.getInstance (12-17), initialize (19-29),                    *)
(* setupEventListeners (31-72)                                             *)
(***************************************************************************)
getInstance(z) == IF z.instances = 0 THEN [z EXCEPT !.instances = 1] ELSE z

\* zg.on(...) for each of the three events, on the engine just created
setupEventListeners(z) ==
    IF z.zg = NULL THEN z
    ELSE [z EXCEPT !.listeners = [e \in SdkEvents |-> @[e] + 1]]

\* mutant: initialize without its isInitialized guard
initialize_unguarded(z, throws) ==
    IF throws THEN z
    ELSE [setupEventListeners([z EXCEPT !.engines = @ + 1,
                                        !.zg = "engine_" \o ToString(z.engines + 1)])
            EXCEPT !.isInitialized = TRUE]

\* initialize(): `throws` says whether new ZegoExpressEngine(...) throws
initialize(z, throws) ==
    IF z.isInitialized THEN z
    ELSE IF throws THEN z
    ELSE [setupEventListeners([z EXCEPT !.engines = @ + 1,
                                        !.zg = "engine_" \o ToString(z.engines + 1)])
            EXCEPT !.isInitialized = TRUE]

\* the hook's render: useRef(ZegoService.getInstance())
Render ==
    /\ zego' = getInstance(zego)
    /\ UNCHANGED <<sdk, hook, backend, memory, chat, pcStart, pcEnd, pcToggle>>
    /\ UNCHANGED <<signVars, serverVars, input>>

(***************************************************************************)
(* useChat.startSession (505-545) with ZegoService.joinRoom (82-117) and   *)
(* initializeConversation (489-495).                                       *)
(*                                                                         *)
(* startSession is memoised with the dependency list                       *)
(* [initializeConversation], which never changes: the function that runs   *)
(* is the one of the first render, and the `session` and the `endSession`  *)
(* it reads are those of the first render.                                 *)
(***************************************************************************)
\* the `session` that startSession reads: the one of the first render, null
startSession_session == NoSession

\* the `session` read by the endSession that startSession would await: the
\* one of the first render as well
startSession_endSession_session == NoSession

\* the operations of the tab so far that count towards MaxChatSteps
ChatSteps == 2 * hook.starts + chat.ops

\* the startSession call returned false: catch, then finally
startFailed(h) == [h EXCEPT !.isLoading = FALSE, !.lastStart = "false"]

RoomIdOf(n) == "room_" \o ToString(n)
UserIdOf(n) == "user_" \o ToString(n)

\* From the call to the request for the token.  Line 508 tests
\* startSession_session.isActive, which is false; were it true, the
\* endSession awaited would return at once at line 700, its own session
\* being null.  Either way nothing is stopped or left before the join.
StartSessionCall ==
    /\ hook.mounted
    /\ pcStart.at = "idle"
    /\ zego.instances > 0
    /\ hook.starts < MaxStarts
    /\ ChatSteps + 1 < MaxChatSteps
    /\ \E existing \in {NULL} \cup memory, throws \in BOOLEAN :
          LET n  == hook.starts + 1
              z1 == initialize(zego, throws)
              h1 == [hook EXCEPT !.starts = n, !.isLoading = TRUE, !.lastStart = "none"]
          IN  /\ startSession_session.isActive
                    => startSession_endSession_session = NoSession
              /\ IF z1.zg = NULL
                 THEN /\ zego' = z1
                      /\ hook' = startFailed(h1)
                      /\ pcStart' = IdleStart
                 ELSE /\ zego' = [z1 EXCEPT !.currentRoomId = RoomIdOf(n),
                                            !.currentUserId = UserIdOf(n)]
                      /\ hook' = h1
                      /\ pcStart' = [at |-> "getToken", roomId |-> RoomIdOf(n),
                                     userId |-> UserIdOf(n), existing |-> existing]
    /\ UNCHANGED <<sdk, backend, memory, chat, pcEnd, pcToggle>>
    /\ UNCHANGED <<signVars, serverVars, input>>

\* agentAPI.getToken settled; on success zg.loginRoom is called
StartTokenSettled ==
    /\ pcStart.at = "getToken"
    /\ \E ok \in BOOLEAN :
          IF ok
          THEN /\ sdk' = [sdk EXCEPT !.loginOverlap = @ \/ sdk.rooms # {}]
               /\ pcStart' = [pcStart EXCEPT !.at = "loginRoom"]
               /\ hook' = hook
          ELSE /\ hook' = startFailed(hook)
               /\ pcStart' = IdleStart
               /\ sdk' = sdk
    /\ UNCHANGED <<zego, backend, memory, chat, pcEnd, pcToggle>>
    /\ UNCHANGED <<signVars, serverVars, input>>

\* zg.loginRoom settled; on success createZegoStream is called
StartLoginSettled ==
    /\ pcStart.at = "loginRoom"
    /\ \E ok \in BOOLEAN :
          IF ok
          THEN /\ sdk' = [sdk EXCEPT !.rooms = @ \cup {pcStart.roomId}]
               /\ pcStart' = [pcStart EXCEPT !.at = "createStream"]
               /\ hook' = hook
          ELSE /\ hook' = startFailed(hook)
               /\ pcStart' = IdleStart
               /\ sdk' = sdk
    /\ UNCHANGED <<zego, backend, memory, chat, pcEnd, pcToggle>>
    /\ UNCHANGED <<signVars, serverVars, input>>

\* zg.createZegoStream settled: a stream, no stream, or an error
StartStreamSettled ==
    /\ pcStart.at = "createStream"
    /\ \E got \in {"stream", "none", "throw"} :
          IF got = "throw"
          THEN /\ hook' = startFailed(hook)
               /\ pcStart' = IdleStart
          ELSE /\ hook' = hook
               /\ pcStart' = [pcStart EXCEPT !.at =
                     IF got = "stream" THEN "publish" ELSE "startAgent"]
    /\ UNCHANGED <<zego, sdk, backend, memory, chat, pcEnd, pcToggle>>
    /\ UNCHANGED <<signVars, serverVars, input>>

\* zg.startPublishingStream settled; joinRoom returns, agentAPI.startSession
\* is called
StartPublishSettled ==
    /\ pcStart.at = "publish"
    /\ \E ok \in BOOLEAN :
          IF ok
          THEN /\ sdk' = [sdk EXCEPT !.publishing = @ \cup {pcStart.userId \o "_stream"}]
               /\ pcStart' = [pcStart EXCEPT !.at = "startAgent"]
               /\ hook' = hook
          ELSE /\ hook' = startFailed(hook)
               /\ pcStart' = IdleStart
               /\ sdk' = sdk
    /\ UNCHANGED <<zego, backend, memory, chat, pcEnd, pcToggle>>
    /\ UNCHANGED <<signVars, serverVars, input>>

\* memoryService.createOrGetConversation(id): the id of the conversation
createOrGetConversation(mem, id) ==
    IF id # NULL /\ id \in mem THEN id ELSE "conv_" \o ToString(Cardinality(mem) + 1)

\* conv.messages: what memoryService.addMessage has put under the conversation
conversationMessages(stored, conv) ==
    LET mine == SelectSeq(stored, LAMBDA e : e.conv = conv)
    IN  [i \in 1..Len(mine) |-> mine[i].msg]

\* initializeConversation(id) on the hook's state, conv the conversation got
\* and msgs its messages
initializeConversation(h, conv, msgs) ==
    [h EXCEPT !.conversation = conv, !.messages = msgs, !.processedMessageIds = {}]

\* agentAPI.startSession settled: the agent instance runs, the session is set up
StartAgentSettled ==
    /\ pcStart.at = "startAgent"
    /\ \E ok \in BOOLEAN :
          IF ok
          THEN LET id   == "instance_" \o ToString(backend.created + 1)
                   conv == createOrGetConversation(memory, pcStart.existing)
                   h1   == initializeConversation(hook, conv,
                                                  conversationMessages(chat.stored, conv))
               IN  /\ backend' = [backend EXCEPT !.created = @ + 1,
                                                 !.running = @ \cup {id}]
                   /\ memory' = memory \cup {conv}
                   /\ hook' = [h1 EXCEPT
                         !.session = [roomId |-> pcStart.roomId,
                                      userId |-> pcStart.userId,
                                      agentInstanceId |-> id,
                                      isActive |-> TRUE,
                                      conversationId |-> conv],
                         !.isConnected = TRUE,
                         !.isLoading = FALSE,
                         !.lastStart = "true"]
                   /\ zego' = [zego EXCEPT !.messageCallback = conv]
          ELSE /\ hook' = startFailed(hook)
               /\ UNCHANGED <<backend, memory, zego>>
    /\ pcStart' = IdleStart
    /\ UNCHANGED <<sdk, chat, pcEnd, pcToggle>>
    /\ UNCHANGED <<signVars, serverVars, input>>

(***************************************************************************)
(* useChat.endSession (699-721) with ZegoService.leaveRoom (119-129).      *)
(* The endSession the component calls is the one of the latest render: it  *)
(* reads the session and isRecording of the moment of the call.            *)
(***************************************************************************)
\* the state updates that close endSession (714-717)
sessionCleared(h) ==
    [h EXCEPT !.session = NoSession, !.isConnected = FALSE,
              !.agentStatus = "idle", !.currentTranscript = ""]

\* leaveRoom awaits zg.logoutRoom() when there is an engine and a room
leaveRoomLogsOut(z) == z.zg # NULL /\ z.currentRoomId # NULL

\* getCurrentRoomId() and getCurrentUserId() (135-141)
getCurrentRoomId(z) == z.currentRoomId
getCurrentUserId(z) == z.currentUserId

\* From the call to the first request.
EndSessionCall ==
    /\ hook.mounted
    /\ pcEnd.at = "idle"
    /\ hook.session # NoSession
    /\ IF hook.isRecording
       THEN /\ pcEnd' = [at |-> "micOff", session |-> hook.session]
            /\ UNCHANGED <<backend, hook>>
       ELSE IF hook.session.agentInstanceId # NULL
       THEN /\ pcEnd' = [at |-> "stopSession", session |-> hook.session]
            /\ backend' = [backend EXCEPT !.stopRequested =
                              @ \cup {hook.session.agentInstanceId}]
            /\ hook' = hook
       ELSE IF leaveRoomLogsOut(zego)
       THEN /\ pcEnd' = [at |-> "logoutRoom", session |-> hook.session]
            /\ UNCHANGED <<backend, hook>>
       ELSE /\ pcEnd' = IdleEnd
            /\ hook' = sessionCleared(hook)
            /\ backend' = backend
    /\ UNCHANGED <<zego, sdk, memory, chat, pcStart, pcToggle>>
    /\ UNCHANGED <<signVars, serverVars, input>>

\* enableMicrophone(false) settled (704-705)
EndMicSettled ==
    /\ pcEnd.at = "micOff"
    /\ \E ok \in BOOLEAN :
          IF ~ok
          THEN /\ pcEnd' = IdleEnd
               /\ UNCHANGED <<backend, hook>>
          ELSE IF pcEnd.session.agentInstanceId # NULL
          THEN /\ pcEnd' = [pcEnd EXCEPT !.at = "stopSession"]
               /\ backend' = [backend EXCEPT !.stopRequested =
                                 @ \cup {pcEnd.session.agentInstanceId}]
               /\ hook' = [hook EXCEPT !.isRecording = FALSE]
          ELSE IF leaveRoomLogsOut(zego)
          THEN /\ pcEnd' = [pcEnd EXCEPT !.at = "logoutRoom"]
               /\ hook' = [hook EXCEPT !.isRecording = FALSE]
               /\ backend' = backend
          ELSE /\ pcEnd' = IdleEnd
               /\ hook' = sessionCleared([hook EXCEPT !.isRecording = FALSE])
               /\ backend' = backend
    /\ UNCHANGED <<zego, sdk, memory, chat, pcStart, pcToggle>>
    /\ UNCHANGED <<signVars, serverVars, input>>

\* agentAPI.stopSession settled (709); then leaveRoom
EndStopSettled ==
    /\ pcEnd.at = "stopSession"
    /\ \E ok \in BOOLEAN :
          IF ~ok
          THEN /\ pcEnd' = IdleEnd
               /\ UNCHANGED <<backend, hook>>
          ELSE /\ backend' = [backend EXCEPT !.running =
                                 @ \ {pcEnd.session.agentInstanceId}]
               /\ IF leaveRoomLogsOut(zego)
                  THEN /\ pcEnd' = [pcEnd EXCEPT !.at = "logoutRoom"]
                       /\ hook' = hook
                  ELSE /\ pcEnd' = IdleEnd
                       /\ hook' = sessionCleared(hook)
    /\ UNCHANGED <<zego, sdk, memory, chat, pcStart, pcToggle>>
    /\ UNCHANGED <<signVars, serverVars, input>>

\* zg.logoutRoom() settled (122-127); leaveRoom swallows its failure
EndLogoutSettled ==
    /\ pcEnd.at = "logoutRoom"
    /\ \E ok \in BOOLEAN :
          IF ok
          THEN /\ sdk' = [sdk EXCEPT !.rooms = {}, !.publishing = {}]
               /\ zego' = [zego EXCEPT !.currentRoomId = NULL, !.currentUserId = NULL]
          ELSE UNCHANGED <<sdk, zego>>
    /\ hook' = sessionCleared(hook)
    /\ pcEnd' = IdleEnd
    /\ UNCHANGED <<backend, memory, chat, pcStart, pcToggle>>
    /\ UNCHANGED <<signVars, serverVars, input>>

(***************************************************************************)
(* useChat.toggleVoiceRecording (663-685)                                  *)
(***************************************************************************)
ToggleCall ==
    /\ hook.mounted
    /\ pcToggle = "idle"
    /\ hook.isConnected
    /\ pcToggle' = IF hook.isRecording THEN "micOff" ELSE "micOn"
    /\ UNCHANGED <<zego, sdk, hook, backend, memory, chat, pcStart, pcEnd>>
    /\ UNCHANGED <<signVars, serverVars, input>>

\* enableMicrophone settled: true, false, or an error
ToggleSettled ==
    /\ pcToggle # "idle"
    /\ \E got \in {"true", "false", "throw"} :
          hook' =
            IF got = "throw"
            THEN [hook EXCEPT !.isRecording = FALSE, !.agentStatus = "idle"]
            ELSE IF pcToggle = "micOff"
            THEN [hook EXCEPT !.isRecording = FALSE, !.agentStatus = "idle"]
            ELSE IF got = "true"
            THEN [hook EXCEPT !.isRecording = TRUE, !.agentStatus = "listening"]
            ELSE hook
    /\ pcToggle' = "idle"
    /\ UNCHANGED <<zego, sdk, backend, memory, chat, pcStart, pcEnd>>
    /\ UNCHANGED <<signVars, serverVars, input>>

(***************************************************************************)
(* The unmount effect (723-729): useEffect(() => () => {...}, []).  With   *)
(* the empty dependency list the cleanup is the one created by the first   *)
(* render; the `session` and the `endSession` it reads are those of the    *)
(* first render, when useState(null) had just set session to null.         *)
(***************************************************************************)
\* the `session` that the cleanup reads
unmount_session == NoSession

\* the `session` read by the endSession that the cleanup would call
unmount_endSession_session == NoSession

\* The component unmounts and React runs the cleanup.  Line 725 tests
\* unmount_session?.isActive, which is undefined; were it true, the
\* endSession called would return at once at line 700.  Either way nothing
\* is stopped or left.
Unmount ==
    /\ hook.mounted
    /\ unmount_session.isActive => unmount_endSession_session = NoSession
    /\ hook' = [hook EXCEPT !.mounted = FALSE]
    /\ UNCHANGED <<zego, sdk, backend, memory, chat, pcStart, pcEnd, pcToggle>>
    /\ UNCHANGED <<signVars, serverVars, input>>

NextClient ==
    \/ Render
    \/ StartSessionCall
    \/ StartTokenSettled
    \/ StartLoginSettled
    \/ StartStreamSettled
    \/ StartPublishSettled
    \/ StartAgentSettled
    \/ EndSessionCall
    \/ EndMicSettled
    \/ EndStopSettled
    \/ EndLogoutSettled
    \/ ToggleCall
    \/ ToggleSettled
    \/ Unmount

(***************************************************************************)
(* Room messages: the recvExperimentalAPI listener (zego.ts 34-44),        *)
(* handleRoomMessage (76-80) and the callback that setupMessageHandlers    *)
(* installs (part_001 547-630).  The callback keeps the conversation it    *)
(* was set up with; it is replaced only by the next setupMessageHandlers.  *)
(***************************************************************************)

Texts == {"", " ", "hi ", "hi", "hi there"}

\* String.prototype.trim on the texts above
trim(s) == CASE s = " " -> ""
             [] s = "hi " -> "hi"
             [] OTHER -> s

\* the messages the agent sends to the room that the callback acts on:
\* Cmd 3 ASR, Cmd 4 LLM
RoomMessage(Cmd, Text, EndFlag, MessageId) ==
    [Cmd |-> Cmd, Text |-> Text, EndFlag |-> EndFlag, MessageId |-> MessageId]

RoomMessages ==
    { RoomMessage(3, "hi", FALSE, ""),        \* a transcript in progress
      RoomMessage(3, " ", TRUE, "m1"),        \* a final transcript, blank
      RoomMessage(3, "hi ", TRUE, ""),        \* a final transcript without id
      RoomMessage(3, "hi ", TRUE, "m2"),      \* a final transcript with an id
      RoomMessage(4, "hi", FALSE, "m1"),      \* a reply in progress
      RoomMessage(4, "hi there", TRUE, "m1"), \* a reply finished
      RoomMessage(4, "", TRUE, "m1"),         \* a reply without text
      RoomMessage(4, "hi", TRUE, "") }        \* a reply without id

Exists(msgs, id) == \E i \in 1..Len(msgs) : msgs[i].id = id

\* const userMessage: Message (568-575)
voiceMessage(id, transcript) ==
    [id |-> id, content |-> trim(transcript), sender |-> "user", type |-> "voice",
     transcript |-> trim(transcript), isStreaming |-> "undefined"]

\* const aiMessage: Message (603-610), finalMessage (617-623)
aiMessage(id, content, isStreaming) ==
    [id |-> id, content |-> content, sender |-> "ai", type |-> "text",
     transcript |-> "undefined", isStreaming |-> isStreaming]

\* const userMessage: Message of sendTextMessage (642-648)
textMessage(id, content) ==
    [id |-> id, content |-> content, sender |-> "user", type |-> "text",
     transcript |-> "undefined", isStreaming |-> "undefined"]

\* !EndFlag as the value of isStreaming
NotFlag(flag) == IF flag THEN "false" ELSE "true"

\* prev.map(m => m.id === MessageId ? {...m, content, isStreaming: !EndFlag} : m)
streamUpdate(msgs, id, content, EndFlag) ==
    [i \in 1..Len(msgs) |->
        IF msgs[i].id = id
        THEN [msgs[i] EXCEPT !.content = content, !.isStreaming = NotFlag(EndFlag)]
        ELSE msgs[i]]

\* the id of a final transcript: MessageId || `voice_...`
voiceId(d, n) == IF d.MessageId # "" THEN d.MessageId ELSE "voice_" \o ToString(n)

\* Cmd 3 (552-586): h the hook, st the stored messages, conv the conversation
\* of the callback, n the number of this delivery
onAsrResult(h, st, conv, d, n) ==
    IF d.Text = "" THEN [h |-> h, st |-> st]
    ELSE LET h1 == [h EXCEPT !.currentTranscript = d.Text, !.agentStatus = "listening"]
             id == voiceId(d, n)
         IN  IF ~(d.EndFlag /\ trim(d.Text) # "") \/ id \in h.processedMessageIds
             THEN [h |-> h1, st |-> st]
             ELSE [h  |-> [h1 EXCEPT
                             !.processedMessageIds = @ \cup {id},
                             !.messages = IF Exists(@, id) THEN @
                                          ELSE Append(@, voiceMessage(id, d.Text)),
                             !.currentTranscript = "",
                             !.agentStatus = "thinking"],
                   st |-> Append(st, [conv |-> conv, msg |-> voiceMessage(id, d.Text)])]

\* mutant: every chunk of a reply is appended as a new entry
onLlmResult_appending(h, st, conv, d) ==
    IF d.Text = "" \/ d.MessageId = "" THEN [h |-> h, st |-> st]
    ELSE [h  |-> [h EXCEPT !.messages =
                     Append(@, aiMessage(d.MessageId, d.Text, NotFlag(d.EndFlag))),
                           !.agentStatus = IF d.EndFlag THEN "idle" ELSE "speaking"],
          st |-> IF d.EndFlag
                 THEN Append(st, [conv |-> conv,
                                  msg |-> aiMessage(d.MessageId, d.Text, "undefined")])
                 ELSE st]

\* Cmd 4 (588-627)
onLlmResult(h, st, conv, d) ==
    IF d.Text = "" \/ d.MessageId = "" THEN [h |-> h, st |-> st]
    ELSE LET msgs == IF Exists(h.messages, d.MessageId)
                     THEN streamUpdate(h.messages, d.MessageId, d.Text, d.EndFlag)
                     ELSE Append(h.messages,
                                 aiMessage(d.MessageId, d.Text, NotFlag(d.EndFlag)))
         IN  IF d.EndFlag
             THEN [h  |-> [h EXCEPT !.messages = msgs, !.agentStatus = "idle"],
                   st |-> Append(st, [conv |-> conv,
                                      msg |-> aiMessage(d.MessageId, d.Text, "undefined")])]
             ELSE [h  |-> [h EXCEPT !.messages = msgs, !.agentStatus = "speaking"],
                   st |-> st]

\* the callback given to onRoomMessage (548-629)
onRoomMessage(h, st, conv, d, n) ==
    IF d.Cmd = 3 THEN onAsrResult(h, st, conv, d, n)
    ELSE IF d.Cmd = 4 THEN onLlmResult(h, st, conv, d)
    ELSE [h |-> h, st |-> st]

\* the message closes an utterance or a reply
IsFinal(d) ==
    \/ d.Cmd = 3 /\ d.EndFlag /\ trim(d.Text) # ""
    \/ d.Cmd = 4 /\ d.EndFlag /\ d.Text # "" /\ d.MessageId # ""

\* the message is the last chunk of a reply: Cmd 4 with EndFlag set
EndsReply(d) == d.Cmd = 4 /\ d.EndFlag

deliveryId(d, n) == IF d.Cmd = 3 THEN voiceId(d, n) ELSE d.MessageId

\* The engine raises recvExperimentalAPI while the tab is logged into a room.
\* The listener drops other methods and content that JSON.parse rejects;
\* handleRoomMessage drops the message when no callback is set.
RecvExperimentalAPI ==
    /\ zego.listeners["recvExperimentalAPI"] > 0
    /\ sdk.rooms # {}
    /\ ChatSteps < MaxChatSteps
    /\ \E arrives \in {"message", "otherCmd", "otherMethod", "badJson"},
          d \in RoomMessages :
          LET n == chat.ops + 1
          IN  IF arrives # "message" \/ zego.messageCallback = NULL
              THEN UNCHANGED <<hook, chat>>
              ELSE LET r == onRoomMessage(hook, chat.stored, zego.messageCallback, d, n)
                   IN  /\ hook' = r.h
                       /\ chat' = [chat EXCEPT
                             !.ops = n,
                             !.stored = r.st,
                             !.last = [id      |-> deliveryId(d, n),
                                       final   |-> IsFinal(d),
                                       fresh   |-> deliveryId(d, n)
                                                      \notin hook.processedMessageIds,
                                       listed  |-> Exists(r.h.messages, deliveryId(d, n)),
                                       conv    |-> IF Len(r.st) > Len(chat.stored)
                                                   THEN r.st[Len(r.st)].conv ELSE NULL,
                                       exposed |-> hook.conversation,
                                       active  |-> hook.session.isActive,
                                       ended   |-> EndsReply(d),
                                       n       |-> n]]
    /\ UNCHANGED <<zego, sdk, backend, memory, pcStart, pcEnd, pcToggle>>
    /\ UNCHANGED <<signVars, serverVars, input>>

(***************************************************************************)
(* The conversation operations the hook returns: initializeConversation    *)
(* (489-495) and resetConversation (497-503), called by the component.     *)
(***************************************************************************)
InitializeConversationCall ==
    /\ ChatSteps < MaxChatSteps
    /\ \E id \in {NULL} \cup memory :
          LET conv == createOrGetConversation(memory, id)
          IN  /\ memory' = memory \cup {conv}
              /\ hook' = initializeConversation(hook, conv,
                                                conversationMessages(chat.stored, conv))
    /\ chat' = [chat EXCEPT !.ops = @ + 1]
    /\ UNCHANGED <<zego, sdk, backend, pcStart, pcEnd, pcToggle>>
    /\ UNCHANGED <<signVars, serverVars, input>>

resetConversation(h) ==
    [h EXCEPT !.messages = <<>>, !.conversation = NULL, !.currentTranscript = "",
              !.agentStatus = "idle", !.processedMessageIds = {}]

ResetConversationCall ==
    /\ ChatSteps < MaxChatSteps
    /\ hook' = resetConversation(hook)
    /\ chat' = [chat EXCEPT !.ops = @ + 1]
    /\ UNCHANGED <<zego, sdk, backend, memory, pcStart, pcEnd, pcToggle>>
    /\ UNCHANGED <<signVars, serverVars, input>>

(***************************************************************************)
(* useChat.sendTextMessage (633-660): the function of the latest render,   *)
(* with the session and conversation of the moment of the call.            *)
(***************************************************************************)
SendTextCall ==
    /\ hook.session.agentInstanceId # NULL
    /\ hook.conversation # NULL
    /\ ChatSteps < MaxChatSteps
    /\ \E content \in Texts :
          LET n   == chat.ops + 1
              msg == textMessage("text_" \o ToString(n), trim(content))
          IN  /\ trim(content) # ""
              /\ hook' = [hook EXCEPT !.messages = Append(@, msg),
                                      !.agentStatus = "thinking"]
              /\ chat' = [chat EXCEPT
                            !.ops = n,
                            !.inflight = @ + 1,
                            !.stored = Append(@, [conv |-> hook.conversation,
                                                  msg  |-> msg])]
    /\ UNCHANGED <<zego, sdk, backend, memory, pcStart, pcEnd, pcToggle>>
    /\ UNCHANGED <<signVars, serverVars, input>>

\* agentAPI.sendMessage settled (655-659)
SendTextSettled ==
    /\ chat.inflight > 0
    /\ \E ok \in BOOLEAN :
          hook' = IF ok THEN hook ELSE [hook EXCEPT !.agentStatus = "idle"]
    /\ chat' = [chat EXCEPT !.inflight = @ - 1]
    /\ UNCHANGED <<zego, sdk, backend, memory, pcStart, pcEnd, pcToggle>>
    /\ UNCHANGED <<signVars, serverVars, input>>

NextChat ==
    \/ Render
    \/ StartSessionCall
    \/ StartTokenSettled
    \/ StartLoginSettled
    \/ StartStreamSettled
    \/ StartPublishSettled
    \/ StartAgentSettled
    \/ RecvExperimentalAPI
    \/ InitializeConversationCall
    \/ ResetConversationCall
    \/ SendTextCall
    \/ SendTextSettled

(***************************************************************************)
(* VoiceMessageInput (VoiceMessageInput.tsx 17-204).  A handler reads the  *)
(* message, isSending and props of the render that created it.  React      *)
(* commits the state set inside a click, key or submit event before the    *)
(* next event is dispatched; state set after an await is committed at once *)
(* or in a later task.                                                     *)
(***************************************************************************)
\* calls of onSendMessage that are followed
MaxSends == 2

Drafts == {"", " ", "hi ", "yo"}

InitInput ==
    input = [message |-> "", isSending |-> FALSE,
             rendered |-> [message |-> "", isSending |-> FALSE],
             isConnected |-> FALSE, agentStatus |-> "idle",
             inflight |-> 0, sent |-> <<>>, settled |-> 0]

\* the render that follows a state update: handlers are created anew
commit(v) ==
    [v EXCEPT !.rendered = [message |-> v.message, isSending |-> v.isSending]]

\* the parent renders the component with other props
PropsChange ==
    /\ \E c \in BOOLEAN, a \in {"idle", "listening", "thinking", "speaking"} :
          input' = commit([input EXCEPT !.isConnected = c, !.agentStatus = a])
    /\ UNCHANGED <<signVars, serverVars, chatVars>>

\* onChange of the textarea (119)
ChangeMessage ==
    /\ \E text \in Drafts : input' = commit([input EXCEPT !.message = text])
    /\ UNCHANGED <<signVars, serverVars, chatVars>>

\* mutant: the event ends without the render of the state it set
handleSubmit_noFlush(v) ==
    IF trim(v.rendered.message) = "" \/ ~v.isConnected \/ v.rendered.isSending
    THEN v
    ELSE [v EXCEPT !.isSending = TRUE,
                   !.inflight = @ + 1,
                   !.sent = Append(@, trim(v.rendered.message))]

\* handleSubmit (39-53) from the event to its await, and the render React
\* commits when the event ends
handleSubmit(v) ==
    IF trim(v.rendered.message) = "" \/ ~v.isConnected \/ v.rendered.isSending
    THEN v
    ELSE commit([v EXCEPT !.isSending = TRUE,
                          !.inflight = @ + 1,
                          !.sent = Append(@, trim(v.rendered.message))])

\* handleKeyPress (55-60): key Enter without shift
handleKeyPress(v) == IF ~v.rendered.isSending THEN handleSubmit(v) ELSE v

\* a submit event of the form (111): the send button, or any other submit
SubmitForm ==
    /\ Len(input.sent) < MaxSends
    /\ input' = handleSubmit(input)
    /\ UNCHANGED <<signVars, serverVars, chatVars>>

\* Enter in the textarea (120)
KeyPressEnter ==
    /\ Len(input.sent) < MaxSends
    /\ input' = handleKeyPress(input)
    /\ UNCHANGED <<signVars, serverVars, chatVars>>

\* the promise of onSendMessage settles (47-52): setMessage('') when it
\* resolved, setIsSending(false) either way
submitSettled(v, resolved) ==
    [v EXCEPT !.message = IF resolved THEN "" ELSE @,
              !.isSending = FALSE,
              !.inflight = @ - 1,
              !.settled = @ + 1]

SendMessageSettled ==
    /\ input.inflight > 0
    /\ \E resolved \in BOOLEAN, atOnce \in BOOLEAN :
          input' = IF atOnce THEN commit(submitSettled(input, resolved))
                   ELSE submitSettled(input, resolved)
    /\ UNCHANGED <<signVars, serverVars, chatVars>>

\* the render scheduled by state set after an await
InputRender ==
    /\ input.rendered # [message |-> input.message, isSending |-> input.isSending]
    /\ input' = commit(input)
    /\ UNCHANGED <<signVars, serverVars, chatVars>>

NextInput ==
    \/ PropsChange
    \/ ChangeMessage
    \/ SubmitForm
    \/ KeyPressEnter
    \/ SendMessageSettled
    \/ InputRender

(***************************************************************************)
(* The specifications.                                                     *)
(***************************************************************************)
Init == InitSign /\ InitServer /\ InitClient /\ InitInput

\* calls of the signing routine
SpecSignature == Init /\ [][NextSignature]_vars

\* calls of makeZegoRequest
SpecZegoRequest == Init /\ [][NextZegoRequest]_vars

\* the server, serving requests
SpecServer == Init /\ [][NextServer]_vars

\* the browser tab
SpecClient == Init /\ [][NextClient]_vars

\* the browser tab with its room messages and conversations
SpecChat == Init /\ [][NextChat]_vars

\* the message input
SpecInput == Init /\ [][NextInput]_vars

(***************************************************************************)
(* Claims about the server.                                                *)
(***************************************************************************)
\* field k of a body or query is missing or the empty string
MissingOrEmpty(in, k) == \A i \in 1..Len(in) : in[i][1] = k => in[i][2] = Str("")

\* the request fails the validation of its endpoint
InvalidInput(q) ==
    \/ q.ep = "/api/start"
         /\ (MissingOrEmpty(q.in, "room_id") \/ MissingOrEmpty(q.in, "user_id"))
    \/ q.ep = "/api/send-message"
         /\ (MissingOrEmpty(q.in, "agent_instance_id") \/ MissingOrEmpty(q.in, "message"))
    \/ q.ep = "/api/stop" /\ MissingOrEmpty(q.in, "agent_instance_id")
    \/ q.ep = "/api/token" /\ MissingOrEmpty(q.in, "user_id")

\* C4: a request to /api/start, /api/send-message, /api/stop or /api/token
\* with a missing or empty required field is answered 400 in the step that
\* receives it: no request goes to the vendor and REGISTERED_AGENT_ID is
\* left as it was.
C4_ValidationBeforeEffect ==
    [][\A r \in Requests :
          (reqs[r].pc = "idle" /\ reqs'[r].pc # "idle" /\ InvalidInput(reqs'[r]))
            => /\ reqs'[r].pc = "done"
               /\ reqs'[r].status = 400
               /\ reqs'[r].sent = 1
               /\ reqs'[r].calls = <<>>
               /\ REGISTERED_AGENT_ID' = REGISTERED_AGENT_ID]_vars

\* no agent is registered; /api/start without user_id and /api/stop with
\* an empty agent_instance_id are both answered 400
C4_Witness ==
    /\ REGISTERED_AGENT_ID = NULL
    /\ reqs["r1"].ep = "/api/start"
    /\ reqs["r1"].in = << <<"room_id", Str("x1")>> >>
    /\ reqs["r1"].status = 400
    /\ reqs["r2"].ep = "/api/stop"
    /\ reqs["r2"].in = << <<"agent_instance_id", Str("")>> >>
    /\ reqs["r2"].status = 400

VendorEndpoints == {"/api/start", "/api/send-message", "/api/stop"}

AllCodeZero(q) ==
    \A i \in 1..Len(q.replies) : q.replies[i].kind = "data" /\ q.replies[i].Code = 0

\* C5 as stated: for a valid request to /api/start, /api/send-message or
\* /api/stop the answer is 200 with success:true exactly when every vendor
\* call made returned Code 0, 400 with the vendor's message when a vendor
\* call returned a non-zero Code, and 500 with the error's message when a
\* vendor call threw; RegisterAgent included.
C5_VendorOutcomeTranslated ==
    \A r \in Requests :
        LET q == reqs[r]
        IN  (q.ep \in VendorEndpoints /\ q.pc = "done" /\ ~InvalidInput(q)) =>
              /\ (q.status = 200 /\ HasKey(q.body, "success")) <=> AllCodeZero(q)
              /\ \A i \in 1..Len(q.replies) :
                    /\ (q.replies[i].kind = "data" /\ q.replies[i].Code # 0)
                          => /\ q.status = 400
                             /\ q.replies[i].Message # ""
                                   => Get(q.body, "error") = Str(q.replies[i].Message)
                    /\ q.replies[i].kind = "throw"
                          => /\ q.status = 500
                             /\ Get(q.body, "error") = Str(q.replies[i].Message)

IsPrefix(a, b) == Len(a) <= Len(b) /\ \A i \in 1..Len(a) : a[i] = b[i]

\* C7: an authorized /proxy/llm request asks upstream with stream: true
\* whatever its body said (the other fields as sent); the chunks reach the
\* client in the order received, none dropped or repeated, as long as the
\* client is connected; and once upstream has ended or failed the response
\* is ended.
C7_StreamRelayed ==
    \A r \in Requests :
        LET q == reqs[r]
        IN  (q.ep = "/proxy/llm" /\ q.pc \in {"awaitUpstream", "streaming", "done"}
               /\ q.status # 401) =>
              /\ Get(q.upstreamBody, "stream") = Bool(TRUE)
              /\ Cardinality({i \in 1..Len(q.upstreamBody) :
                                 q.upstreamBody[i][1] = "stream"}) = 1
              /\ \A i \in 1..Len(q.in) :
                    q.in[i][1] # "stream" => Get(q.upstreamBody, q.in[i][1]) = q.in[i][2]
              /\ q.received = [i \in 1..Len(q.received) |-> i]
              /\ IsPrefix(q.written, q.received)
              /\ ~q.clientClosed => q.written = q.received
              /\ q.upstream \in {"ended", "errored"} => q.ended

\* a body that asked for stream: false, two chunks relayed, upstream ended
C7_Witness ==
    \E r \in Requests :
        /\ reqs[r].ep = "/proxy/llm"
        /\ HasKey(reqs[r].in, "stream")
        /\ Get(reqs[r].in, "stream") = Bool(FALSE)
        /\ reqs[r].upstream = "ended"
        /\ reqs[r].written = <<1, 2>>
        /\ reqs[r].ended

(***************************************************************************)
(* Claims about the browser tab.                                           *)
(***************************************************************************)
\* C8 as stated: loginRoom is never called while an earlier login of the
\* ZegoService has not been logged out.
C8_NoLoginWhileLoggedIn == ~sdk.loginOverlap

CreatedInstances == {"instance_" \o ToString(i) : i \in 1..backend.created}

\* C9 as stated: at most one agent instance created by the hook has not had
\* agentAPI.stopSession requested for it.
C9_AtMostOneAgentInstance ==
    Cardinality(CreatedInstances \ backend.stopRequested) <= 1

\* C10: ZegoService.getInstance constructs one instance, and whatever the
\* number of initialize calls at most one ZegoExpressEngine is created and
\* each of the three SDK listeners is registered at most once.
C10_Singleton ==
    /\ zego.instances <= 1
    /\ zego.engines <= 1
    /\ \A e \in SdkEvents : zego.listeners[e] <= 1
    /\ zego.isInitialized <=> zego.engines = 1
    /\ zego.isInitialized => \A e \in SdkEvents : zego.listeners[e] = 1

\* startSession has called initialize twice on an engine that exists
C10_Witness ==
    /\ hook.starts = 2
    /\ hook.lastStart = "true"
    /\ zego.engines = 1
    /\ Cardinality(CreatedInstances) = 2

(***************************************************************************)
(* Claims about the hook's messages and conversations.                     *)
(***************************************************************************)
\* C11 as stated: a final message that the room-message callback receives
\* during a session (a final transcript that is not blank, or a finished
\* reply with text and id; not a repeat of an id already handled) is shown
\* in the messages list and is stored by memoryService.addMessage under the
\* conversation the hook exposes at that moment.
C11_MirroredIntoSameConversation ==
    (chat.last.final /\ chat.last.fresh /\ chat.last.active)
        => /\ chat.last.listed
           /\ chat.last.conv = chat.last.exposed

\* the entry at position i differs from the old one in content and
\* isStreaming at most
OnlyStreamed(old, new) ==
    new = [old EXCEPT !.content = new.content, !.isStreaming = new.isStreaming]

\* C12 as stated: the messages list changes only by appending an entry whose
\* id is new, by a streamed update that rewrites content and isStreaming of
\* one entry where it stands and leaves every other entry as it was, or by
\* initializeConversation / resetConversation, which replace the list by the
\* messages of the conversation or by nothing.
C12_MessagesKeepArrivalOrder ==
    [][LET old == hook.messages
           new == hook'.messages
       IN  \/ new = old
           \/ /\ Len(new) = Len(old) + 1
              /\ SubSeq(new, 1, Len(old)) = old
              /\ ~Exists(old, new[Len(new)].id)
           \/ /\ Len(new) = Len(old)
              /\ \E i \in 1..Len(old) :
                    /\ OnlyStreamed(old[i], new[i])
                    /\ \A j \in 1..Len(old) : j # i => new[j] = old[j]
           \/ /\ hook'.processedMessageIds = {}
              /\ \/ hook'.conversation = NULL /\ new = <<>>
                 \/ /\ hook'.conversation # NULL
                    /\ new = conversationMessages(chat.stored, hook'.conversation)]_vars

(***************************************************************************)
(* Claims about the message input.                                         *)
(***************************************************************************)
\* C13: at most one onSendMessage call of the input is unsettled at any
\* time, isSending is true while it is, and false once it has settled,
\* resolved or rejected.
C13_OneSendInFlight ==
    /\ input.inflight <= 1
    /\ input.isSending <=> input.inflight = 1
    /\ Len(input.sent) = input.inflight + input.settled

\* a second message is being sent after the first send settled
C13_Witness ==
    /\ Len(input.sent) = 2
    /\ input.settled = 1
    /\ input.inflight = 1
    /\ input.isSending

(***************************************************************************)
(* Claims about the registration of the agent.                             *)
(***************************************************************************)
\* the vendor answered call i of the request with Code 0
Answered0(q, i) ==
    i <= Len(q.replies) /\ q.replies[i].kind = "data" /\ q.replies[i].Code = 0

\* the RegisterAgent requests that the vendor answered with Code 0
RegisteredCalls ==
    {c \in Requests \X {1, 2} :
        /\ c[2] <= Len(reqs[c[1]].calls)
        /\ reqs[c[1]].calls[c[2]].Action = "RegisterAgent"
        /\ Answered0(reqs[c[1]], c[2])}

\* the AgentIds they registered
RegisteredIds == {Get(reqs[c[1]].calls[c[2]].body, "AgentId") : c \in RegisteredCalls}

\* /api/start answered 200
Started(q) == q.ep = "/api/start" /\ q.pc = "done" /\ q.status = 200

\* C14 as stated: whatever the interleaving of /api/start requests, at most
\* one RegisterAgent request registers the agent, REGISTERED_AGENT_ID once
\* set never changes, and all successful /api/start responses carry the same
\* agentId.
C14_RegisteredOnce ==
    /\ [](Cardinality(RegisteredCalls) <= 1)
    /\ [](\A r1, r2 \in Requests :
             (Started(reqs[r1]) /\ Started(reqs[r2]))
                => Get(reqs[r1].body, "agentId") = Get(reqs[r2].body, "agentId"))
    /\ [][REGISTERED_AGENT_ID # NULL
             => REGISTERED_AGENT_ID' = REGISTERED_AGENT_ID]_vars

\* the request sent CreateAgentInstance
SentCreate(q) == \E i \in 1..Len(q.calls) : q.calls[i].Action = "CreateAgentInstance"

\* C15: the step in which a RegisterAgent request fails (non-zero Code, or
\* thrown) leaves REGISTERED_AGENT_ID as it was, null if it was null, and
\* ends the /api/start without a CreateAgentInstance request; /health
\* reports registeredAgent as REGISTERED_AGENT_ID is set; and a valid
\* /api/start that arrives while it is null sends RegisterAgent.
C15_FailedRegistrationChangesNothing ==
    [][\A r \in Requests :
          /\ (reqs[r].pc = "awaitRegister" /\ reqs'[r].pc # "awaitRegister"
                /\ ~Answered0(reqs'[r], Len(reqs'[r].replies)))
               => /\ REGISTERED_AGENT_ID' = REGISTERED_AGENT_ID
                  /\ reqs'[r].pc = "done"
                  /\ reqs'[r].status = 500
                  /\ ~SentCreate(reqs'[r])
          /\ (reqs[r].pc = "idle" /\ reqs'[r].ep = "/health")
               => Get(reqs'[r].body, "registeredAgent")
                     = Bool(REGISTERED_AGENT_ID # NULL)
          /\ (reqs[r].pc = "idle" /\ reqs'[r].ep = "/api/start"
                /\ ~InvalidInput(reqs'[r]) /\ REGISTERED_AGENT_ID = NULL)
               => /\ Len(reqs'[r].calls) = 1
                  /\ reqs'[r].calls[1].Action = "RegisterAgent"]_vars

\* the first /api/start failed at RegisterAgent; the second one registered
\* and started an agent instance
C15_Witness ==
    /\ reqs["r1"].ep = "/api/start"
    /\ reqs["r1"].status = 500
    /\ Len(reqs["r1"].calls) = 1
    /\ reqs["r1"].replies[1].Code = 410001
    /\ Started(reqs["r2"])
    /\ reqs["r2"].calls[1].Action = "RegisterAgent"
    /\ REGISTERED_AGENT_ID = reqs["r2"].agentId

\* C16: every CreateAgentInstance request, every agentId of a successful
\* /api/start response and REGISTERED_AGENT_ID itself name an AgentId that a
\* RegisterAgent request answered with Code 0 registered; /health says
\* registeredAgent true only then; and REGISTERED_AGENT_ID, once set, is
\* never null again.
C16_OnlyRegisteredAgents ==
    /\ [](\A r \in Requests :
             LET q == reqs[r]
             IN  /\ \A i \in 1..Len(q.calls) :
                       q.calls[i].Action = "CreateAgentInstance"
                          => Get(q.calls[i].body, "AgentId") \in RegisteredIds
                 /\ Started(q) => Get(q.body, "agentId") \in RegisteredIds
                 /\ (q.ep = "/health" /\ q.pc = "done"
                       /\ Get(q.body, "registeredAgent") = Bool(TRUE))
                      => RegisteredIds # {})
    /\ [](REGISTERED_AGENT_ID # NULL => Str(REGISTERED_AGENT_ID) \in RegisteredIds)
    /\ [][REGISTERED_AGENT_ID # NULL => REGISTERED_AGENT_ID' # NULL]_vars

\* an agent instance was started for a registered agent and /health says so
C16_Witness ==
    /\ Started(reqs["r1"])
    /\ Len(reqs["r1"].calls) = 2
    /\ reqs["r2"].ep = "/health"
    /\ Get(reqs["r2"].body, "registeredAgent") = Bool(TRUE)

(***************************************************************************)
(* Claims about /proxy/llm.                                                *)
(***************************************************************************)
\* C17: a /proxy/llm request whose Authorization header is not exactly
\* "Bearer <PROXY_AUTH>" is answered 401 at once and no upstream request is
\* made for it; a request with exactly that header is never answered 401.
C17_ProxyNeedsExactBearer ==
    \A r \in Requests :
        LET q == reqs[r]
        IN  q.ep = "/proxy/llm" =>
              IF q.auth = "Bearer secure_proxy_token_123"
              THEN q.status # 401 /\ q.upstreamBody # <<>>
              ELSE /\ q.status = 401
                   /\ q.pc = "done"
                   /\ q.upstreamBody = <<>>
                   /\ q.upstream = "none"
                   /\ q.received = <<>>

\* a header with the right token in the wrong form is refused while the
\* exact header streams
C17_Witness ==
    /\ reqs["r1"].ep = "/proxy/llm"
    /\ reqs["r1"].auth = "bearer secure_proxy_token_123"
    /\ reqs["r1"].status = 401
    /\ reqs["r2"].ep = "/proxy/llm"
    /\ reqs["r2"].auth = "Bearer secure_proxy_token_123"
    /\ reqs["r2"].status = 200
    /\ Len(reqs["r2"].written) = 1

\* C18 as stated: once the client of a /proxy/llm request has closed the
\* connection, or the response has been ended, the upstream stream of the
\* request is not open: it has ended, failed or been destroyed.
C18_UpstreamNotLeftOpen ==
    \A r \in Requests :
        (reqs[r].clientClosed \/ reqs[r].ended) => reqs[r].upstream # "open"

(***************************************************************************)
(* Claims about the end and the failure of a session.                      *)
(***************************************************************************)
\* C19 as stated: when an endSession call for an active session returns,
\* agentAPI.stopSession has been requested for its agent instance, the room
\* of the session is no longer logged in, session is null, isConnected is
\* false and agentStatus is idle, whatever failed on the way.
C19_EndSessionTearsDown ==
    [][(pcEnd.at # "idle" /\ pcEnd'.at = "idle")
          => /\ pcEnd.session.agentInstanceId \in backend'.stopRequested
             /\ pcEnd.session.roomId \notin sdk'.rooms
             /\ hook'.session = NoSession
             /\ ~hook'.isConnected
             /\ hook'.agentStatus = "idle"]_vars

\* C20 as stated: isLoading is true while a startSession call runs, and the
\* step in which a call returns false leaves the tab not logged into the
\* room of the attempt and not publishing its stream, leaves session and
\* isConnected as they were, and sets isLoading to false.
C20_FailedStartLeavesNothing ==
    /\ [](pcStart.at # "idle" => hook.isLoading)
    /\ [][(hook'.lastStart = "false" /\ hook.lastStart # "false")
             => /\ pcStart.roomId \notin sdk'.rooms
                /\ \A u \in sdk'.publishing : u # pcStart.userId \o "_stream"
                /\ hook'.session = hook.session
                /\ hook'.isConnected = hook.isConnected
                /\ ~hook'.isLoading]_vars

(***************************************************************************)
(* Claims about the room and user the service reports.                     *)
(***************************************************************************)
\* the user that joinRoom logs into room r with
UserOfRoom(r) == CHOOSE u \in {UserIdOf(n) : n \in 1..MaxStarts} :
                    \E n \in 1..MaxStarts : r = RoomIdOf(n) /\ u = UserIdOf(n)

\* C21 as stated: whenever no joinRoom and no leaveRoom is under way,
\* getCurrentRoomId() and getCurrentUserId() are null if the engine is logged
\* into no room, and name the room and the user of the login otherwise.
C21_ReportsTheLogin ==
    (pcStart.at \in {"idle", "startAgent"} /\ pcEnd.at # "logoutRoom")
        => IF sdk.rooms = {}
           THEN getCurrentRoomId(zego) = NULL /\ getCurrentUserId(zego) = NULL
           ELSE /\ sdk.rooms = {getCurrentRoomId(zego)}
                /\ getCurrentUserId(zego) = UserOfRoom(getCurrentRoomId(zego))

(***************************************************************************)
(* Claims about the unmount of the component.                              *)
(***************************************************************************)
\* C22 as stated: when the component unmounts while the session is active
\* and no endSession is under way, endSession runs: the step of the unmount
\* leaves it at its first request (the microphone switched off, or the
\* agent instance of the session being stopped).
C22_UnmountEndsSession ==
    [][(hook.mounted /\ ~hook'.mounted /\ hook.session.isActive /\ pcEnd.at = "idle")
          => pcEnd'.at # "idle"]_vars

(***************************************************************************)
(* Claims about agentStatus.                                               *)
(***************************************************************************)
\* agentStatus === 'thinking' || agentStatus === 'speaking' of isDisabled
\* (VoiceMessageInput.tsx 62)
Busy(status) == status \in {"thinking", "speaking"}

\* C23 as stated: when the callback has been handed the last chunk of a
\* reply (Cmd 4 with EndFlag set), agentStatus is neither thinking nor
\* speaking after that step, the two values that disable the input.
C23_NotBusyAfterReplyEnded ==
    [][(chat'.ops = chat.ops + 1 /\ chat'.last.n = chat'.ops /\ chat'.last.ended)
          => ~Busy(hook'.agentStatus)]_vars

(***************************************************************************)
(* Claims about what is persisted and listed.                              *)
(***************************************************************************)
\* C24 as stated: memoryService.addMessage is called at most once for a
\* message id and a conversation: no two of the calls made so far name the
\* same conversation and carry a message with the same id.
C24_PersistedAtMostOnce ==
    \A i, j \in 1..Len(chat.stored) :
        (chat.stored[i].conv = chat.stored[j].conv
            /\ chat.stored[i].msg.id = chat.stored[j].msg.id) => i = j

\* no two entries of the list share an id
UniqueIds(msgs) == \A i, j \in 1..Len(msgs) : msgs[i].id = msgs[j].id => i = j

\* the step replaces the list by the messages of a conversation
\* (initializeConversation, also inside startSession)
Loads ==
    /\ hook'.messages # hook.messages
    /\ hook'.processedMessageIds = {}
    /\ hook'.conversation # NULL
    /\ hook'.messages = conversationMessages(chat.stored, hook'.conversation)

\* C25: a list without repeated ids stays without repeated ids in every
\* step of the hook (a room message, sendTextMessage, resetConversation),
\* except a step that loads the messages of a conversation, whose ids are
\* those the conversation was given.
C25_IdsStayUnique ==
    [][UniqueIds(hook.messages) => (UniqueIds(hook'.messages) \/ Loads)]_vars

\* a transcript and a reply are listed once each after the last chunk of the
\* reply was delivered twice
C25_Witness ==
    /\ Len(hook.messages) = 2
    /\ hook.messages[1].id = "m2"
    /\ hook.messages[2] = aiMessage("m1", "hi there", "false")
    /\ Len(chat.stored) = 3
    /\ chat.stored[2].msg.id = "m1"
    /\ chat.stored[3].msg.id = "m1"

====
